---- MODULE Spec2Model ----
(***************************************************************************)
(* create-preset-env: the merge-and-serialize core of src/unnamed/part_000 *)
(* (the util module that src/src/index.ts imports) and the CLI pipeline    *)
(* around it.                                                              *)
(*                                                                         *)
(* A JavaScript string is a sequence of one-character strings, so that     *)
(* splitting, trimming, quoting and unquoting are computed character by    *)
(* character, as the code computes them.                                   *)
(***************************************************************************)
EXTENDS Naturals, Sequences, FiniteSets, TLC

VARIABLES
    pc,          \* position of the run
    rawConfigs,  \* what loadRawConfigs returned
    envConfig,   \* what processRawConfigs returned
    fileExists,  \* whether the target file is on disk
    fileText,    \* its content
    currentEnv,  \* the parsed items of the target file
    content,     \* the text generateEnvContent returned
    ioLog,       \* reads and writes of the target file in this run, in order
    exitCode,    \* process exit status of this run
    pass,        \* how many times the CLI has been started
    prevRun      \* the items and the text of the previous run

vars == <<pc, rawConfigs, envConfig, fileExists, fileText, currentEnv,
          content, ioLog, exitCode, pass, prevRun>>

----------------------------------------------------------------------------
(* Characters and the JavaScript string primitives the code calls.         *)

LowerCase == {"a","b","c","d","e","f","g","h","i","j","k","l","m",
              "n","o","p","q","r","s","t","u","v","w","x","y","z"}
UpperCase == {"A","B","C","D","E","F","G","H","I","J","K","L","M",
              "N","O","P","Q","R","S","T","U","V","W","X","Y","Z"}
Digit == {"0","1","2","3","4","5","6","7","8","9"}
HexDigit == Digit \cup {"a","b","c","d","e","f","A","B","C","D","E","F"}

\* White space and line terminators that String.prototype.trim removes.
WhiteSpace == {" ", "\t", "\n", "\r", "\f"}

\* Characters below U+0020, which JSON forbids unescaped inside a string.
ControlChar == {"\t", "\n", "\r", "\f"}

QUOTE == "\""
BACKSLASH == "\\"
NEWLINE == "\n"

RECURSIVE TrimStart(_)
TrimStart(s) ==
    IF s = <<>> THEN <<>>
    ELSE IF Head(s) \in WhiteSpace THEN TrimStart(Tail(s)) ELSE s

RECURSIVE TrimEnd(_)
TrimEnd(s) ==
    IF s = <<>> THEN <<>>
    ELSE IF s[Len(s)] \in WhiteSpace THEN TrimEnd(SubSeq(s, 1, Len(s) - 1))
    ELSE s

\* line.trim()
Trim(s) == TrimEnd(TrimStart(s))

\* s.startsWith(p)
StartsWith(s, p) == Len(s) >= Len(p) /\ SubSeq(s, 1, Len(p)) = p

\* s.endsWith(p)
EndsWith(s, p) ==
    Len(s) >= Len(p) /\ SubSeq(s, Len(s) - Len(p) + 1, Len(s)) = p

\* s.indexOf(c): the 0-based index of the first c, or -1, given here as
\* a pair <<found, index>> over the naturals.
IndexOf(s, c) ==
    IF \E i \in 1..Len(s) : s[i] = c
    THEN <<TRUE, (CHOOSE i \in 1..Len(s) :
                     s[i] = c /\ \A j \in 1..(i - 1) : s[j] # c) - 1>>
    ELSE <<FALSE, 0>>

\* s.substring(a, b) with 0-based a <= b already clamped to 0..; a bound
\* beyond the length is clamped to the length.
Substring(s, a, b) ==
    LET lo == IF a > Len(s) THEN Len(s) ELSE a
        hi == IF b > Len(s) THEN Len(s) ELSE b
    IN  IF lo <= hi THEN SubSeq(s, lo + 1, hi) ELSE SubSeq(s, hi + 1, lo)

\* s.includes(c)
Includes(s, c) == \E i \in 1..Len(s) : s[i] = c

\* fileContent.split(/\r?\n/): a line ends at each \n, and one \r right
\* before that \n belongs to the separator.
RECURSIVE SplitLoop(_, _, _)
SplitLoop(s, i, cur) ==
    IF i > Len(s) THEN <<cur>>
    ELSE IF s[i] = NEWLINE
         THEN LET seg == IF cur # <<>> /\ cur[Len(cur)] = "\r"
                         THEN SubSeq(cur, 1, Len(cur) - 1) ELSE cur
              IN  <<seg>> \o SplitLoop(s, i + 1, <<>>)
         ELSE SplitLoop(s, i + 1, Append(cur, s[i]))

SplitLines(s) == SplitLoop(s, 1, <<>>)

\* description.split("\n")
RECURSIVE SplitNlLoop(_, _, _)
SplitNlLoop(s, i, cur) ==
    IF i > Len(s) THEN <<cur>>
    ELSE IF s[i] = NEWLINE
         THEN <<cur>> \o SplitNlLoop(s, i + 1, <<>>)
         ELSE SplitNlLoop(s, i + 1, Append(cur, s[i]))

SplitNl(s) == SplitNlLoop(s, 1, <<>>)

\* parts.join(sep)
RECURSIVE Join(_, _)
Join(parts, sep) ==
    IF parts = <<>> THEN <<>>
    ELSE IF Len(parts) = 1 THEN parts[1]
    ELSE parts[1] \o sep \o Join(Tail(parts), sep)

----------------------------------------------------------------------------
(* JSON.stringify and JSON.parse on one string.                            *)

EscapeChar(c) ==
    IF c = QUOTE THEN <<BACKSLASH, QUOTE>>
    ELSE IF c = BACKSLASH THEN <<BACKSLASH, BACKSLASH>>
    ELSE IF c = "\n" THEN <<BACKSLASH, "n">>
    ELSE IF c = "\r" THEN <<BACKSLASH, "r">>
    ELSE IF c = "\t" THEN <<BACKSLASH, "t">>
    ELSE IF c = "\f" THEN <<BACKSLASH, "f">>
    ELSE <<c>>

RECURSIVE EscapeAll(_)
EscapeAll(s) ==
    IF s = <<>> THEN <<>> ELSE EscapeChar(Head(s)) \o EscapeAll(Tail(s))

\* JSON.stringify(value) of a string.
JSONstringify(s) == <<QUOTE>> \o EscapeAll(s) \o <<QUOTE>>

\* The character a two-character escape stands for; "" when the escape is
\* not one of JSON's.
Unescape(c) ==
    IF c = QUOTE THEN QUOTE
    ELSE IF c = BACKSLASH THEN BACKSLASH
    ELSE IF c = "/" THEN "/"
    ELSE IF c = "n" THEN "\n"
    ELSE IF c = "r" THEN "\r"
    ELSE IF c = "t" THEN "\t"
    ELSE IF c = "f" THEN "\f"
    ELSE IF c = "b" THEN "\\u0008"
    ELSE ""

\* The body of a JSON string literal, between its quotes: <<ok, decoded>>.
\* A \uXXXX escape is kept as the one code unit it names, written as its
\* escape text.
RECURSIVE UnescapeLoop(_, _, _)
UnescapeLoop(s, i, acc) ==
    IF i > Len(s) THEN <<TRUE, acc>>
    ELSE IF s[i] = QUOTE \/ s[i] \in ControlChar THEN <<FALSE, <<>>>>
    ELSE IF s[i] # BACKSLASH THEN UnescapeLoop(s, i + 1, Append(acc, s[i]))
    ELSE IF i = Len(s) THEN <<FALSE, <<>>>>
    ELSE IF s[i + 1] = "u"
         THEN IF i + 5 <= Len(s) /\ \A j \in (i + 2)..(i + 5) : s[j] \in HexDigit
              THEN UnescapeLoop(s, i + 6,
                       Append(acc, "\\u" \o s[i+2] \o s[i+3] \o s[i+4] \o s[i+5]))
              ELSE <<FALSE, <<>>>>
    ELSE IF Unescape(s[i + 1]) = "" THEN <<FALSE, <<>>>>
    ELSE UnescapeLoop(s, i + 2, Append(acc, Unescape(s[i + 1])))

\* JSON.parse(value) for a value that starts and ends with a double quote
\* and has length >= 2: <<ok, string>>, ok = FALSE where JSON.parse throws.
JSONparse(v) == UnescapeLoop(SubSeq(v, 2, Len(v) - 1), 1, <<>>)

----------------------------------------------------------------------------
(* Parsed items: a string (an opaque line) or an EnvVariable.              *)

Line(text) == [kind |-> "line", text |-> text]

\* An EnvVariable; hasDesc is whether the description property is set
\* (truthy), description its lines.
EnvVariable(key, value, hasDesc, description) ==
    [kind |-> "var", key |-> key, value |-> value,
     hasDesc |-> hasDesc, description |-> description]

\* KEY_REGEXP = /^[a-zA-Z_]+[a-zA-Z0-9_]*$/
KEY_REGEXP(key) ==
    /\ Len(key) >= 1
    /\ key[1] \in LowerCase \cup UpperCase \cup {"_"}
    /\ \A i \in 1..Len(key) :
          key[i] \in LowerCase \cup UpperCase \cup Digit \cup {"_"}

isValidKey(key) == key # <<>> /\ KEY_REGEXP(key)

\* commentBuffer.forEach((comment) => result.push(`# ${comment}`))
FlushComments(commentBuffer) ==
    [i \in 1..Len(commentBuffer) |-> Line(<<"#", " ">> \o commentBuffer[i])]

\* The key of a line with an index of -1 taken as "up to the end": the
\* whole line is the key of a line without "=".
LineKeyWholeLine(line) ==
    LET eq == IndexOf(line, "=")
    IN  IF eq[1] THEN Substring(line, 0, eq[2]) ELSE Substring(line, 0, Len(line))

\* The key of a line: line.substring(0, line.indexOf("=")); an index of
\* -1 is clamped to 0 by substring, which gives the empty string.
LineKey(line) ==
    LET eq == IndexOf(line, "=")
    IN  IF eq[1] THEN Substring(line, 0, eq[2]) ELSE Substring(line, 0, 0)

\* The raw value of a line: line.substring(line.indexOf("=") + 1); with no
\* "=" that is substring(0), the whole line.
LineValue(line) ==
    LET eq == IndexOf(line, "=")
    IN  IF eq[1] THEN Substring(line, eq[2] + 1, Len(line))
        ELSE Substring(line, 0, Len(line))

\* The value after the unquoting attempt of lines 517-527.
Unquote(value) ==
    IF Len(value) >= 2 /\ StartsWith(value, <<QUOTE>>) /\ EndsWith(value, <<QUOTE>>)
    THEN LET p == JSONparse(value) IN IF p[1] THEN p[2] ELSE value
    ELSE value

\* One iteration of the for loop (lines 504-545) on the loop's state
\* st = [result, commentBuffer], with a blank line dropping the comments
\* buffered so far.
parseStepBlankFlushes(line, st) ==
    IF Trim(line) = <<>> THEN [st EXCEPT !.commentBuffer = <<>>]
    ELSE IF StartsWith(line, <<"#", " ">>)
    THEN [st EXCEPT !.commentBuffer = Append(@, Substring(line, 2, Len(line)))]
    ELSE IF isValidKey(LineKey(line))
    THEN [result |-> Append(st.result,
                        EnvVariable(LineKey(line), Unquote(LineValue(line)),
                                    Len(st.commentBuffer) > 0, st.commentBuffer)),
          commentBuffer |-> <<>>]
    ELSE [result |-> (st.result \o FlushComments(st.commentBuffer))
                         \o <<Line(line)>>,
          commentBuffer |-> <<>>]

\* One iteration of the for loop (lines 504-545) on the loop's state
\* st = [result, commentBuffer].
parseStep(line, st) ==
    IF Trim(line) = <<>> THEN st
    ELSE IF StartsWith(line, <<"#", " ">>)
    THEN [st EXCEPT !.commentBuffer = Append(@, Substring(line, 2, Len(line)))]
    ELSE IF isValidKey(LineKey(line))
    THEN [result |-> Append(st.result,
                        EnvVariable(LineKey(line), Unquote(LineValue(line)),
                                    Len(st.commentBuffer) > 0, st.commentBuffer)),
          commentBuffer |-> <<>>]
    ELSE [result |-> (st.result \o FlushComments(st.commentBuffer))
                         \o <<Line(line)>>,
          commentBuffer |-> <<>>]

\* The for loop and the flush after it (lines 547-549).
RECURSIVE parseLoop(_, _)
parseLoop(lines, st) ==
    IF lines = <<>> THEN st.result \o FlushComments(st.commentBuffer)
    ELSE parseLoop(Tail(lines), parseStep(Head(lines), st))

parseEnvFileContent(fileContent) ==
    parseLoop(SplitLines(fileContent),
              [result |-> <<>>, commentBuffer |-> <<>>])

----------------------------------------------------------------------------
(* generateEnvContent (lines 423-490).                                     *)

\* An EnvConfig as processRawConfigs returns it.
EnvConfig(target, overrideDescription, variables) ==
    [kind |-> "config", target |-> target,
     overrideDescription |-> overrideDescription, variables |-> variables]

\* variablesMap.get(key): new Map(pairs) keeps, for a key given twice,
\* the last pair.
HasConfigVariable(variables, key) ==
    \E i \in 1..Len(variables) : variables[i].key = key

ConfigVariable(variables, key) ==
    variables[CHOOSE i \in 1..Len(variables) :
                 /\ variables[i].key = key
                 /\ \A j \in (i + 1)..Len(variables) : variables[j].key # key]

\* currentEnvKeys: the keys of the items that are objects.
CurrentEnvKeys(currentItems) ==
    {currentItems[i].key : i \in {j \in 1..Len(currentItems) :
                                     currentItems[j].kind = "var"}}

\* finalDesc as the older src/src/util.ts computes the description: the
\* incoming one, whatever the current one is.
FinalDescReplaces(currentDesc, newDesc) == newDesc

\* finalDesc of lines 450-459.
FinalDesc(currentDesc, newDesc) ==
    IF Len(currentDesc) > Len(newDesc)
    THEN SubSeq(currentDesc, 1, Len(currentDesc) - Len(newDesc)) \o newDesc
    ELSE newDesc

\* The callback of currentEnv.map spreading the config variable over the
\* item, so that the config's value replaces the current one.
UpdateItemTakesConfigValue(cfg, item) ==
    IF item.kind = "line" THEN item
    ELSE IF /\ HasConfigVariable(cfg.variables, item.key)
            /\ cfg.overrideDescription
            /\ ConfigVariable(cfg.variables, item.key).hasDesc
         THEN [item EXCEPT
                 !.value = ConfigVariable(cfg.variables, item.key).value,
                 !.hasDesc = TRUE,
                 !.description =
                     FinalDesc(IF item.hasDesc THEN item.description ELSE <<>>,
                               ConfigVariable(cfg.variables, item.key).description)]
         ELSE item

\* The callback of currentEnv.map (lines 439-467).
UpdateItem(cfg, item) ==
    IF item.kind = "line" THEN item
    ELSE IF /\ HasConfigVariable(cfg.variables, item.key)
            /\ cfg.overrideDescription
            /\ ConfigVariable(cfg.variables, item.key).hasDesc
         THEN [item EXCEPT
                 !.hasDesc = TRUE,
                 !.description =
                     FinalDesc(IF item.hasDesc THEN item.description ELSE <<>>,
                               ConfigVariable(cfg.variables, item.key).description)]
         ELSE item

\* The forEach of lines 469-473: the config variables pushed at the end.
RECURSIVE Appended(_, _)
Appended(variables, keys) ==
    IF variables = <<>> THEN <<>>
    ELSE IF Head(variables).key \notin keys
         THEN <<Head(variables)>> \o Appended(Tail(variables), keys)
         ELSE Appended(Tail(variables), keys)

\* updatedEnv when the serialization starts.
UpdatedEnv(cfg, currentItems) ==
    [i \in 1..Len(currentItems) |-> UpdateItem(cfg, currentItems[i])]
        \o Appended(cfg.variables, CurrentEnvKeys(currentItems))

\* The same with /\n/ for the pattern: a double quote alone leaves the
\* value raw.
RenderValueNewlineOnly(value) ==
    IF Includes(value, NEWLINE) THEN JSONstringify(value) ELSE value

\* /"|\n/.test(item.value) ? JSON.stringify(item.value) : item.value
RenderValue(value) ==
    IF Includes(value, QUOTE) \/ Includes(value, NEWLINE)
    THEN JSONstringify(value) ELSE value

\* The callback of updatedEnv.map (lines 477-487).
RenderItem(item) ==
    IF item.kind = "line" THEN item.text
    ELSE LET description ==
                 IF item.hasDesc
                 THEN Join([i \in 1..Len(item.description) |->
                               <<"#", " ">> \o item.description[i]], <<NEWLINE>>)
                 ELSE <<>>
         IN  (IF description # <<>> THEN description \o <<NEWLINE>> ELSE <<>>)
                 \o item.key \o <<"=">> \o RenderValue(item.value)

\* updatedEnv.map(...).join("\n") + "\n"
Serialize(items) ==
    Join([i \in 1..Len(items) |-> RenderItem(items[i])], <<NEWLINE>>)
        \o <<NEWLINE>>

generateEnvContent(cfg, currentItems) ==
    Serialize(UpdatedEnv(cfg, currentItems))

----------------------------------------------------------------------------
(* JavaScript values of a raw config: a value carries its type tag.        *)

StrV(s) == [t |-> "string", s |-> s]
NumV(n) == [t |-> "number", n |-> n]
BoolV(b) == [t |-> "boolean", b |-> b]
NullV == [t |-> "null"]
UndefV == [t |-> "undefined"]

\* A RawEnvVariableObject {value, description?}.
ObjV(value, hasDescription, description) ==
    [t |-> "object", value |-> value,
     hasDescription |-> hasDescription, description |-> description]

\* An entry {key, value, description?} of a variables list.
ListEntry(key, value, hasDescription, description) ==
    [key |-> key, value |-> value,
     hasDescription |-> hasDescription, description |-> description]

\* variables given as a name -> value mapping: its properties in property
\* order, each [key, val].
MapVars(props) == [t |-> "object", form |-> "map", props |-> props]

\* variables given as a list of entries.
ListVars(items) == [t |-> "object", form |-> "list", items |-> items]

\* JavaScript truthiness.
Truthy(v) ==
    IF v.t = "string" THEN v.s # <<>>
    ELSE IF v.t = "number" THEN v.n # 0
    ELSE IF v.t = "boolean" THEN v.b
    ELSE v.t = "object"

RECURSIVE ToDigits(_)
ToDigits(n) ==
    LET d == <<"0","1","2","3","4","5","6","7","8","9">>
    IN  IF n < 10 THEN <<d[n + 1]>> ELSE Append(ToDigits(n \div 10), d[(n % 10) + 1])

\* String(v)
String(v) ==
    IF v.t = "string" THEN v.s
    ELSE IF v.t = "number" THEN ToDigits(v.n)
    ELSE IF v.t = "boolean"
         THEN (IF v.b THEN <<"t","r","u","e">> ELSE <<"f","a","l","s","e">>)
    ELSE IF v.t = "null" THEN <<"n","u","l","l">>
    ELSE IF v.t = "undefined" THEN <<"u","n","d","e","f","i","n","e","d">>
    ELSE <<"[","o","b","j","e","c","t"," ","O","b","j","e","c","t","]">>

\* Reading a property of null or undefined throws a TypeError.
PropertyThrows(v) == v.t \in {"null", "undefined"}

\* v.value: the property of a RawEnvVariableObject, undefined on a number,
\* a boolean or a string.
ValueOf(v) == IF v.t = "object" THEN v.value ELSE UndefV

\* v.description
DescriptionOf(v) ==
    IF v.t = "object" /\ v.hasDescription THEN StrV(v.description) ELSE UndefV

\* obj[k], undefined for a property that is not set.
Get(obj, k) == IF k \in DOMAIN obj THEN obj[k] ELSE UndefV

\* A canonical array index ("0", "1", "12"): such property names come
\* first, in ascending order, in a JavaScript object's property order.
IsArrayIndex(key) ==
    /\ key # <<>>
    /\ \A i \in 1..Len(key) : key[i] \in Digit
    /\ (Len(key) > 1 => key[1] # "0")

RECURSIVE ToNat(_)
ToNat(key) ==
    IF key = <<>> THEN 0
    ELSE 10 * ToNat(SubSeq(key, 1, Len(key) - 1))
           + (CHOOSE n \in 0..9 : ToDigits(n) = <<key[Len(key)]>>)

HasProp(props, key) == \E i \in 1..Len(props) : props[i].key = key

\* Where a new property goes: an array index before the first property that
\* is no smaller array index, any other name at the end.
InsertAt(props, key) ==
    IF IsArrayIndex(key)
    THEN LET later == {i \in 1..Len(props) :
                          \/ ~IsArrayIndex(props[i].key)
                          \/ ToNat(props[i].key) > ToNat(key)}
         IN  IF later = {} THEN Len(props) + 1
             ELSE CHOOSE i \in later : \A j \in later : i <= j
    ELSE Len(props) + 1

\* obj[key] = val that adds a property even when one of that name exists.
ObjSetAlwaysAdds(props, key, val) ==
    LET at == InsertAt(props, key)
    IN  SubSeq(props, 1, at - 1) \o <<[key |-> key, val |-> val]>>
            \o SubSeq(props, at, Len(props))

\* obj[key] = val that deletes a property of that name first, so that the
\* name moves to where a new property goes.
ObjSetMovesKey(props, key, val) ==
    ObjSetAlwaysAdds(SelectSeq(props, LAMBDA q : q.key # key), key, val)

\* obj[key] = val: a property that exists keeps its place.
ObjSet(props, key, val) ==
    IF HasProp(props, key)
    THEN [i \in 1..Len(props) |->
             IF props[i].key = key THEN [key |-> key, val |-> val] ELSE props[i]]
    ELSE LET at == InsertAt(props, key)
         IN  SubSeq(props, 1, at - 1) \o <<[key |-> key, val |-> val]>>
                 \o SubSeq(props, at, Len(props))

\* {...a, ...b}
RECURSIVE Spread(_, _)
Spread(a, b) ==
    IF b = <<>> THEN a ELSE Spread(ObjSet(a, Head(b).key, Head(b).val), Tail(b))

\* The reduce of lines 348-355: a variables list as a mapping.
RECURSIVE ListToMap(_, _)
ListToMap(items, acc) ==
    IF items = <<>> THEN acc
    ELSE LET v == Head(items)
             val == IF v.hasDescription /\ v.description # <<>>
                    THEN ObjV(v.value, TRUE, v.description) ELSE v.value
         IN  ListToMap(Tail(items), ObjSet(acc, v.key, val))

----------------------------------------------------------------------------
(* processRawConfigs (lines 332-383) and transformEnvVariables (390-421).  *)

Absent == [kind |-> "undefined"]
Thrown == [kind |-> "throw"]

\* One iteration of the for loop of lines 343-362. A raw config and
\* mergedConfig are functions from the property names that are set.
MergeStep(mergedConfig, config) ==
    LET rest == [k \in DOMAIN config \ {"variables"} |-> config[k]]
        assigned == [k \in DOMAIN mergedConfig \cup DOMAIN rest |->
                        IF k \in DOMAIN rest THEN rest[k] ELSE mergedConfig[k]]
        variables == Get(config, "variables")
        varsToMerge == IF variables.form = "list"
                       THEN ListToMap(variables.items, <<>>)
                       ELSE variables.props
        before == IF Truthy(Get(assigned, "variables"))
                  THEN assigned["variables"].props ELSE <<>>
    IN  IF Truthy(variables)
        THEN [k \in DOMAIN assigned \cup {"variables"} |->
                 IF k = "variables" THEN MapVars(Spread(before, varsToMerge))
                 ELSE assigned[k]]
        ELSE assigned

RECURSIVE MergeAll(_, _)
MergeAll(mergedConfig, configs) ==
    IF configs = <<>> THEN mergedConfig
    ELSE MergeAll(MergeStep(mergedConfig, Head(configs)), Tail(configs))

\* The callback of lines 394-404, for one entry of a variables list.
TransformListEntry(variable) ==
    EnvVariable(variable.key, String(variable.value), variable.hasDescription,
                IF variable.hasDescription THEN SplitNl(variable.description)
                ELSE <<>>)

\* The callback of lines 407-418, for one property of a variables mapping.
TransformProp(prop) ==
    IF prop.val.t = "string" THEN EnvVariable(prop.key, prop.val.s, FALSE, <<>>)
    ELSE LET description == DescriptionOf(prop.val)
         IN  EnvVariable(prop.key, String(ValueOf(prop.val)),
                         Truthy(description),
                         IF Truthy(description) THEN SplitNl(description.s)
                         ELSE <<>>)

\* [throws, list]: throws where a property value is null or undefined
\* (value.value is read of it).
transformEnvVariables(variables) ==
    IF variables.t = "object" /\ variables.form = "list"
    THEN [throws |-> FALSE,
          list |-> [i \in 1..Len(variables.items) |->
                       TransformListEntry(variables.items[i])]]
    ELSE IF variables.t = "object"
    THEN IF \E i \in 1..Len(variables.props) : PropertyThrows(variables.props[i].val)
         THEN [throws |-> TRUE, list |-> <<>>]
         ELSE [throws |-> FALSE,
               list |-> [i \in 1..Len(variables.props) |->
                            TransformProp(variables.props[i])]]
    ELSE IF variables.t = "null" THEN [throws |-> TRUE, list |-> <<>>]
    ELSE [throws |-> FALSE, list |-> <<>>]

\* path.resolve(cwd, target) for a target without "." or ".." segments.
Resolve(cwd, target) ==
    IF Head(target) = "/" THEN target ELSE cwd \o <<"/">> \o target

\* Finish without the test of lines 371-374.
FinishNoVariablesTest(envCfg, cwd) ==
    IF ~Truthy(Get(envCfg, "target")) THEN Absent
    ELSE LET variables == transformEnvVariables(Get(envCfg, "variables"))
         IN  IF variables.throws THEN Thrown
             ELSE EnvConfig(Resolve(cwd, envCfg["target"].s),
                            Truthy(Get(envCfg, "overrideDescription")),
                            variables.list)

\* What is done with mergedConfig after the loop (lines 364-383).
Finish(envCfg, cwd) ==
    IF ~Truthy(Get(envCfg, "target")) THEN Absent
    ELSE IF ~Truthy(Get(envCfg, "variables")) THEN Absent
    ELSE LET variables == transformEnvVariables(Get(envCfg, "variables"))
         IN  IF variables.throws THEN Thrown
             ELSE EnvConfig(Resolve(cwd, envCfg["target"].s),
                            Truthy(Get(envCfg, "overrideDescription")),
                            variables.list)

processRawConfigs(configs, cwd) ==
    IF Len(configs) = 0 THEN Absent
    ELSE Finish(MergeAll(<<>>, configs), cwd)

----------------------------------------------------------------------------
(* The run of the CLI: src/src/index.ts calling parseAndGenerateEnv.       *)

MaxConfigs == 2   \* raw configs loaded in one run (CONFIG_FILES has 4 names)
MaxPass == 2      \* runs of the CLI in one behaviour

Cwd == <<"/", "w">>
DotEnv == <<".", "e", "n", "v">>

\* Variables sections of the config files of the runs.
PlainVars == MapVars(<<[key |-> <<"A">>, val |-> StrV(<<"1">>)]>>)
BadKeyVars == MapVars(<<[key |-> <<"A", "-", "B">>, val |-> StrV(<<"x">>)]>>)
QuotedVars ==
    MapVars(<<[key |-> <<"B">>,
               val |-> ObjV(StrV(<<"q", QUOTE>>), TRUE, <<"d", NEWLINE, "e">>)]>>)
ListFormVars == ListVars(<<ListEntry(<<"A">>, NumV(2), TRUE, <<"n">>)>>)
EmptyVars == MapVars(<<>>)
NullVars == MapVars(<<[key |-> <<"C">>, val |-> NullV]>>)

\* Raw configs that pass isValidRawConfig.
PipeConfigs ==
    { <<>>,
      [target |-> StrV(DotEnv)],
      [target |-> StrV(<<>>)],
      [overrideDescription |-> BoolV(TRUE)],
      [target |-> StrV(DotEnv), variables |-> PlainVars],
      [variables |-> PlainVars],
      [variables |-> BadKeyVars],
      [target |-> StrV(DotEnv), overrideDescription |-> BoolV(TRUE),
       variables |-> QuotedVars],
      [variables |-> ListFormVars],
      [target |-> StrV(DotEnv), variables |-> EmptyVars],
      [variables |-> NullVars] }

\* Config files whose content fails isValidRawConfig.
InvalidConfigs ==
    { [target |-> NumV(5)],
      [target |-> StrV(DotEnv), variables |-> StrV(<<"x">>)] }

\* isValidRawConfig (lines 280-297) of the content of a config file that
\* is an object.
isValidRawConfig(config) ==
    /\ Truthy(Get(config, "target")) => Get(config, "target").t = "string"
    /\ Truthy(Get(config, "overrideDescription"))
          => Get(config, "overrideDescription").t = "boolean"
    /\ Truthy(Get(config, "variables")) => Get(config, "variables").t = "object"

SeqsUpTo(S, n) == UNION {[1..k -> S] : k \in 0..n}

\* Contents of the target file before the first run.
DuplicateKeysText == <<"A", "=", "0", NEWLINE, "A", "=", "1", NEWLINE>>
CommentedText == <<"#", " ", "o", NEWLINE, "B", "=", "0", NEWLINE>>
PipeTexts == {<<>>, DuplicateKeysText, CommentedText}

NoRun == [ran |-> FALSE, items |-> <<>>, content |-> <<>>]

Init ==
    /\ pc = "start"
    /\ rawConfigs = <<>>
    /\ envConfig = Absent
    /\ fileExists \in BOOLEAN
    /\ fileText \in (IF fileExists THEN PipeTexts ELSE {<<>>})
    /\ currentEnv = <<>>
    /\ content = <<>>
    /\ ioLog = <<>>
    /\ exitCode = 0
    /\ pass = 1
    /\ prevRun = NoRun

\* loadRawConfigs: the valid configs of the config files, in CONFIG_FILES
\* order; a later run finds the same files.
Load ==
    /\ pc = "start"
    /\ IF pass = 1
       THEN \E found \in SeqsUpTo(PipeConfigs \cup InvalidConfigs, MaxConfigs) :
                rawConfigs' = SelectSeq(found, isValidRawConfig)
       ELSE rawConfigs' = rawConfigs
    /\ pc' = "loaded"
    /\ UNCHANGED <<envConfig, fileExists, fileText, currentEnv, content,
                   ioLog, exitCode, pass, prevRun>>

\* parseEnvConfig, then the test of parseAndGenerateEnv (lines 565-569)
\* and of index.ts line 16; an exception reaches the catch of index.ts
\* (lines 25-28).
Process ==
    /\ pc = "loaded"
    /\ envConfig' = processRawConfigs(rawConfigs, Cwd)
    /\ pc' = IF envConfig'.kind = "config" THEN "read" ELSE "done"
    /\ exitCode' = IF envConfig'.kind = "throw" THEN 1 ELSE 0
    /\ UNCHANGED <<rawConfigs, fileExists, fileText, currentEnv, content,
                   ioLog, pass, prevRun>>

\* parseCurrentEnvFull (lines 554-562).
ReadTarget ==
    /\ pc = "read"
    /\ IF fileExists
       THEN /\ ioLog' = Append(ioLog, "read")
            /\ currentEnv' = parseEnvFileContent(fileText)
       ELSE /\ ioLog' = ioLog
            /\ currentEnv' = <<>>
    /\ pc' = "generate"
    /\ UNCHANGED <<rawConfigs, envConfig, fileExists, fileText, content,
                   exitCode, pass, prevRun>>

\* The return of parseAndGenerateEnv (lines 571-574).
Generate ==
    /\ pc = "generate"
    /\ content' = generateEnvContent(envConfig, currentEnv)
    /\ pc' = "write"
    /\ UNCHANGED <<rawConfigs, envConfig, fileExists, fileText, currentEnv,
                   ioLog, exitCode, pass, prevRun>>

\* index.ts lines 17-24.
Write ==
    /\ pc = "write"
    /\ IF content # <<>>
       THEN /\ fileText' = content
            /\ fileExists' = TRUE
            /\ ioLog' = Append(ioLog, "write")
       ELSE UNCHANGED <<fileText, fileExists, ioLog>>
    /\ pc' = "done"
    /\ UNCHANGED <<rawConfigs, envConfig, currentEnv, content, exitCode,
                   pass, prevRun>>

\* The CLI is started again (the "prepare" script of package.json).
Rerun ==
    /\ pc = "done"
    /\ pass < MaxPass
    /\ prevRun' = [ran |-> envConfig.kind = "config",
                   items |-> currentEnv, content |-> content]
    /\ pass' = pass + 1
    /\ pc' = "start"
    /\ envConfig' = Absent
    /\ currentEnv' = <<>>
    /\ content' = <<>>
    /\ ioLog' = <<>>
    /\ exitCode' = 0
    /\ UNCHANGED <<rawConfigs, fileExists, fileText>>

Next == Load \/ Process \/ ReadTarget \/ Generate \/ Write \/ Rerun

Spec == Init /\ [][Next]_vars

----------------------------------------------------------------------------
(* Claims about the run.                                                   *)

VarIndices(items) == {i \in 1..Len(items) : items[i].kind = "var"}

KeysDistinct(items) ==
    \A i, j \in VarIndices(items) : i # j => items[i].key # items[j].key

\* The keys of the Variable Entries of items, in order.
RECURSIVE VarKeys(_)
VarKeys(items) ==
    IF items = <<>> THEN <<>>
    ELSE IF Head(items).kind = "var"
         THEN <<Head(items).key>> \o VarKeys(Tail(items))
         ELSE VarKeys(Tail(items))

\* The keys of the valid variable lines among lines, in order.
RECURSIVE ValidLineKeys(_)
ValidLineKeys(lines) ==
    IF lines = <<>> THEN <<>>
    ELSE IF /\ Trim(Head(lines)) # <<>>
            /\ ~StartsWith(Head(lines), <<"#", " ">>)
            /\ isValidKey(LineKey(Head(lines)))
         THEN <<LineKey(Head(lines))>> \o ValidLineKeys(Tail(lines))
         ELSE ValidLineKeys(Tail(lines))

\* The inputs of the run are insufficient: no raw config, or no truthy
\* target or variables after the merge.
Insufficient ==
    \/ Len(rawConfigs) = 0
    \/ ~Truthy(Get(MergeAll(<<>>, rawConfigs), "target"))
    \/ ~Truthy(Get(MergeAll(<<>>, rawConfigs), "variables"))

\* C1: a second run with the same config files, after a first run that
\* found no current items, generates the text the first run generated.
C1_Idempotence ==
    (/\ pass = 2
     /\ pc \in {"write", "done"}
     /\ envConfig.kind = "config"
     /\ prevRun.ran
     /\ prevRun.items = <<>>) => content = prevRun.content

\* C8: a run with insufficient inputs gets no config from
\* processRawConfigs, neither reads nor writes the target file and ends
\* without error; any run reads the file at most once and writes it at most
\* once, the write after the read.
C8_NoWriteOnInsufficientInput ==
    /\ (pc # "start" /\ Insufficient) =>
          /\ ioLog = <<>>
          /\ exitCode = 0
          /\ envConfig = Absent
          /\ pc \in {"loaded", "done"}
    /\ ioLog \in {<<>>, <<"read">>, <<"write">>, <<"read", "write">>}
    /\ (pc = "done" /\ envConfig.kind = "config") =>
          ioLog \in {<<"write">>, <<"read", "write">>}

\* A run over an existing target file ended without touching it, because
\* the merged config has a target and no variables.
C8_Witness ==
    /\ pc = "done"
    /\ Len(rawConfigs) > 0
    /\ Truthy(Get(MergeAll(<<>>, rawConfigs), "target"))
    /\ ~Truthy(Get(MergeAll(<<>>, rawConfigs), "variables"))
    /\ fileExists
    /\ ioLog = <<>>
    /\ envConfig = Absent

\* C9 as stated: no two Variable Entries of the list processRawConfigs
\* returns, nor of the items parseEnvFileContent returns, have the same key.
C9_KeyUniqueness ==
    /\ envConfig.kind = "config" => KeysDistinct(envConfig.variables)
    /\ KeysDistinct(currentEnv)

\* C9 as amended: no two Variable Entries of the list processRawConfigs
\* returns have the same key; parseEnvFileContent returns one Variable
\* Entry per valid variable line of the text, in line order and with that
\* line's key.
C9_KeysOfConfigAndOfLines ==
    /\ envConfig.kind = "config" => KeysDistinct(envConfig.variables)
    /\ (pc \in {"generate", "write"} /\ fileExists) =>
          VarKeys(currentEnv) = ValidLineKeys(SplitLines(fileText))

\* Two raw configs set the same key, and the target file read has two
\* valid lines with the same key.
C9_Witness ==
    /\ pc = "generate"
    /\ fileExists
    /\ envConfig.kind = "config"
    /\ Len(rawConfigs) = 2
    /\ \A i \in 1..2 :
          /\ Truthy(Get(rawConfigs[i], "variables"))
          /\ HasConfigVariable(
                 MergeAll(<<>>, <<rawConfigs[i]>>)["variables"].props, <<"A">>)
    /\ Len(envConfig.variables) = 1
    /\ ~KeysDistinct(currentEnv)

----------------------------------------------------------------------------
(* processRawConfigs on its own: the raw configs are drawn, then Process.   *)

MaxNormConfigs == 3   \* raw configs in one list

NormConfigs ==
    { <<>>,
      [target |-> StrV(DotEnv),
       variables |-> MapVars(<<[key |-> <<"A">>, val |-> StrV(<<"1">>)],
                               [key |-> <<"B">>, val |-> NumV(123)]>>)],
      [variables |->
          MapVars(<<[key |-> <<"1">>, val |-> StrV(<<"i">>)],
                    [key |-> <<"B">>,
                     val |-> ObjV(NumV(3040), TRUE, <<"d">>)]>>)],
      [variables |->
          ListVars(<<ListEntry(<<"C">>, BoolV(TRUE), FALSE, <<>>),
                     ListEntry(<<"A">>, NumV(7), TRUE, <<"n", NEWLINE, "m">>)>>)],
      [target |-> StrV(<<"/", "t">>), overrideDescription |-> BoolV(TRUE)],
      [overrideDescription |-> BoolV(FALSE),
       variables |->
          MapVars(<<[key |-> <<"C">>, val |-> ObjV(BoolV(TRUE), FALSE, <<>>)],
                    [key |-> <<"A">>, val |-> BoolV(FALSE)]>>)],
      [target |-> StrV(<<>>), variables |-> MapVars(<<>>)],
      [variables |-> ListVars(<<ListEntry(<<"A">>, StrV(<<"s">>), TRUE, <<>>)>>)] }

InitNorm ==
    /\ pc = "loaded"
    /\ rawConfigs \in SeqsUpTo(NormConfigs, MaxNormConfigs)
    /\ envConfig = Absent
    /\ fileExists = FALSE
    /\ fileText = <<>>
    /\ currentEnv = <<>>
    /\ content = <<>>
    /\ ioLog = <<>>
    /\ exitCode = 0
    /\ pass = 1
    /\ prevRun = NoRun

NextNorm == Process

SpecNorm == InitNorm /\ [][NextNorm]_vars

\* The names a raw config's variables set.
KeysSet(config) ==
    LET variables == Get(config, "variables")
    IN  IF ~Truthy(variables) THEN {}
        ELSE IF variables.form = "list"
        THEN {variables.items[i].key : i \in 1..Len(variables.items)}
        ELSE {variables.props[i].key : i \in 1..Len(variables.props)}

\* The raw variables of a config whose value is a number or a boolean, as
\* <<key, scalar>>: bare in a mapping, in a {value, description?} object of
\* a mapping, or in a list entry (the last one of its key).
NonStringScalars(config) ==
    LET variables == Get(config, "variables")
        scalar(v) == v.t \in {"number", "boolean"}
    IN  IF ~Truthy(variables) THEN {}
        ELSE IF variables.form = "list"
        THEN {<<variables.items[i].key, variables.items[i].value>> :
                 i \in {j \in 1..Len(variables.items) :
                          /\ scalar(variables.items[j].value)
                          /\ \A l \in (j + 1)..Len(variables.items) :
                                variables.items[l].key # variables.items[j].key}}
        ELSE {<<variables.props[i].key, variables.props[i].val>> :
                 i \in {j \in 1..Len(variables.props) :
                          scalar(variables.props[j].val)}}
             \cup
             {<<variables.props[i].key, variables.props[i].val.value>> :
                 i \in {j \in 1..Len(variables.props) :
                          /\ variables.props[j].val.t = "object"
                          /\ scalar(variables.props[j].val.value)}}

\* C4: the normalized value of a raw variable given as a number or a
\* boolean, in any of the three forms, is the string representation of that
\* scalar (for the source that sets the key last).
C4_ValueCoercion ==
    (pc # "loaded" /\ envConfig.kind = "config") =>
        \A i \in 1..Len(rawConfigs) :
            \A kv \in NonStringScalars(rawConfigs[i]) :
                (\A j \in (i + 1)..Len(rawConfigs) : kv[1] \notin KeysSet(rawConfigs[j]))
                => \E n \in 1..Len(envConfig.variables) :
                      /\ envConfig.variables[n].key = kv[1]
                      /\ envConfig.variables[n].value = String(kv[2])

\* merge(X, Y): the raw config the loop of processRawConfigs builds from X
\* and then Y.
merge(X, Y) == MergeAll(<<>>, <<X, Y>>)

\* The names of the merged variables of a list of raw configs, in order.
MergedKeys(configs) ==
    LET variables == Get(MergeAll(<<>>, configs), "variables")
    IN  IF Truthy(variables)
        THEN [i \in 1..Len(variables.props) |-> variables.props[i].key]
        ELSE <<>>

InSeq(x, sq) == \E i \in 1..Len(sq) : sq[i] = x

\* C6: normalizing [A, B, C] gives what normalizing [A, merge(B, C)] and
\* [merge(A, B), C] gives, and a further source leaves the names already
\* merged in the order they had.
C6_MergeAssociative ==
    pc # "loaded" =>
        /\ Len(rawConfigs) = 3 =>
              /\ envConfig = processRawConfigs(
                     <<rawConfigs[1], merge(rawConfigs[2], rawConfigs[3])>>, Cwd)
              /\ envConfig = processRawConfigs(
                     <<merge(rawConfigs[1], rawConfigs[2]), rawConfigs[3]>>, Cwd)
        /\ \A k \in 1..(Len(rawConfigs) - 1) :
              LET before == MergedKeys(SubSeq(rawConfigs, 1, k))
                  after == MergedKeys(SubSeq(rawConfigs, 1, k + 1))
              IN  SelectSeq(after, LAMBDA x : InSeq(x, before)) = before

\* Three sources were normalized to a config; the second is a list, the
\* third sets again a name the first set, and another name came in between.
C6_Witness ==
    /\ pc = "read"
    /\ Len(rawConfigs) = 3
    /\ envConfig.kind = "config"
    /\ Truthy(Get(rawConfigs[2], "variables"))
    /\ rawConfigs[2]["variables"].form = "list"
    /\ <<"A">> \in KeysSet(rawConfigs[1]) \cap KeysSet(rawConfigs[3])
    /\ Len(envConfig.variables) = 3
    /\ envConfig.variables[1].key = <<"A">>
    /\ envConfig.variables[1].value = <<"u","n","d","e","f","i","n","e","d">>

----------------------------------------------------------------------------
(* parseEnvFileContent on its own: a target file is drawn, read by         *)
(* ReadTarget and written back by Generate under a config that declares no *)
(* variables.                                                              *)

MaxLines == 4   \* lines of the target file

ParseLines ==
    { <<"A", "=", "1">>,
      <<"B", "=", QUOTE, "x", QUOTE>>,
      <<"A", "=", QUOTE, "a", BACKSLASH, QUOTE, "b", QUOTE>>,
      <<"B", "=", QUOTE, BACKSLASH, "q", QUOTE>>,
      <<"A", "=", "1", "\r">>,
      <<"#", " ", "c">>,
      <<"#", " ", "d">>,
      <<>>,
      <<"F", "O", "O">> }

NoVariablesConfig == EnvConfig(Resolve(Cwd, DotEnv), FALSE, <<>>)

InitParse ==
    /\ pc = "read"
    /\ rawConfigs = <<[target |-> StrV(DotEnv), variables |-> EmptyVars]>>
    /\ envConfig = NoVariablesConfig
    /\ fileExists = TRUE
    /\ fileText \in {Join(lines, <<NEWLINE>>) : lines \in SeqsUpTo(ParseLines, MaxLines)}
    /\ currentEnv = <<>>
    /\ content = <<>>
    /\ ioLog = <<>>
    /\ exitCode = 0
    /\ pass = 1
    /\ prevRun = NoRun

NextParse == ReadTarget \/ Generate

SpecParse == InitParse /\ [][NextParse]_vars

\* A valid `KEY=value` line: it has a "=", and the text before the first
\* one is an identifier.
ValidKeyValueLine(line) == IndexOf(line, "=")[1] /\ isValidKey(LineKey(line))

\* The lines of a text that a final newline does not close: what "\n"
\* separates, without the empty string after a final "\n".
TextLines(text) ==
    LET parts == SplitNl(text)
    IN  IF parts[Len(parts)] = <<>> THEN SubSeq(parts, 1, Len(parts) - 1)
        ELSE parts

OnlyValidLines(text) ==
    \A i \in 1..Len(TextLines(text)) : ValidKeyValueLine(TextLines(text)[i])

IsQuoted(v) ==
    Len(v) >= 2 /\ StartsWith(v, <<QUOTE>>) /\ EndsWith(v, <<QUOTE>>)

\* A value as the serializer writes values: without any double quote, or
\* the JSON encoding of a string that has a double quote or a newline.
AsWritten(v) ==
    \/ ~Includes(v, QUOTE)
    \/ /\ IsQuoted(v)
       /\ JSONparse(v)[1]
       /\ Includes(JSONparse(v)[2], QUOTE) \/ Includes(JSONparse(v)[2], NEWLINE)
       /\ JSONstringify(JSONparse(v)[2]) = v

SameUpToFinalNewline(out, text) == out = text \/ out = text \o <<NEWLINE>>

\* C2 as stated: a text of valid `KEY=value` lines only is reproduced, up
\* to the final newline, by parsing it and serializing the items under a
\* config without variables.
C2_RoundTrip ==
    (pc = "write" /\ OnlyValidLines(fileText)) =>
        SameUpToFinalNewline(content, fileText)

\* C2 as amended: such a text is reproduced when, in addition, no line
\* ends with a carriage return and every value is as the serializer writes
\* values.
C2_RoundTripOfWrittenValues ==
    (/\ pc = "write"
     /\ OnlyValidLines(fileText)
     /\ \A i \in 1..Len(TextLines(fileText)) :
           /\ ~EndsWith(TextLines(fileText)[i], <<"\r">>)
           /\ AsWritten(LineValue(TextLines(fileText)[i])))
    => SameUpToFinalNewline(content, fileText)

\* A text of two lines and a final newline was reproduced; one value is
\* JSON-quoted, and parsing unquoted it.
C2_Witness ==
    /\ pc = "write"
    /\ Len(TextLines(fileText)) = 2
    /\ Len(SplitNl(fileText)) = 3
    /\ OnlyValidLines(fileText)
    /\ \A i \in 1..2 : AsWritten(LineValue(TextLines(fileText)[i]))
    /\ IsQuoted(LineValue(TextLines(fileText)[1]))
    /\ ~IsQuoted(LineValue(TextLines(fileText)[2]))
    /\ currentEnv[1].value = <<"a", QUOTE, "b">>
    /\ content = fileText

\* The lines of a text that are not blank: the parser skips the others.
NonBlankLines(text) == SelectSeq(SplitLines(text), LAMBDA l : Trim(l) # <<>>)

IsCommentLine(line) == StartsWith(line, <<"#", " ">>)

\* The block of comment lines right before line j of nb (j may be one past
\* the end): the lines after the last line before j that is no comment,
\* with the prefix removed.
CommentBlock(nb, j) ==
    LET closers == {t \in 1..(j - 1) : ~IsCommentLine(nb[t])}
        first == IF closers = {} THEN 1
                 ELSE 1 + CHOOSE t \in closers : \A u \in closers : u <= t
    IN  [k \in 1..(j - first) |-> SubSeq(nb[first + k - 1], 3, Len(nb[first + k - 1]))]

\* What line j of nb and the block before it give, as C5 states it.
ItemsOfLine(nb, j) ==
    IF IsCommentLine(nb[j]) THEN <<>>
    ELSE IF ValidKeyValueLine(nb[j])
    THEN <<EnvVariable(LineKey(nb[j]), Unquote(LineValue(nb[j])),
                       Len(CommentBlock(nb, j)) >= 1, CommentBlock(nb, j))>>
    ELSE [k \in 1..Len(CommentBlock(nb, j)) |->
             Line(<<"#", " ">> \o CommentBlock(nb, j)[k])] \o <<Line(nb[j])>>

RECURSIVE ItemsUpTo(_, _)
ItemsUpTo(nb, j) ==
    IF j = 0 THEN <<>> ELSE ItemsUpTo(nb, j - 1) \o ItemsOfLine(nb, j)

\* C5: each block of N >= 1 comment lines (blank lines skipped) before a
\* valid variable line gives one Variable Entry with those N lines as its
\* description; before an invalid line it gives N opaque "# " lines and then
\* the invalid line, and at the end of the input N opaque "# " lines; a
\* line with no block before it gets no description.
C5_CommentAssociation ==
    pc \in {"generate", "write"} =>
        LET nb == NonBlankLines(fileText)
        IN  currentEnv =
                ItemsUpTo(nb, Len(nb))
                    \o [k \in 1..Len(CommentBlock(nb, Len(nb) + 1)) |->
                           Line(<<"#", " ">> \o CommentBlock(nb, Len(nb) + 1)[k])]

\* Two comment lines with a blank line between them, then a valid line:
\* one entry with a two-line description.
C5_Witness ==
    /\ pc = "generate"
    /\ SplitLines(fileText) = << <<"#", " ", "c">>, <<>>, <<"#", " ", "d">>,
                                 <<"A", "=", "1">> >>
    /\ currentEnv = <<EnvVariable(<<"A">>, <<"1">>, TRUE, << <<"c">>, <<"d">> >>)>>

----------------------------------------------------------------------------
(* generateEnvContent on its own: a config and the current items are       *)
(* drawn, then Generate.                                                   *)

MaxItems == 2   \* items of the parsed target file

GenKeys == {<<"A">>, <<"B">>}
GenDescriptions == {<<>>, << <<"N">> >>, << <<"N">>, <<"M">> >>}

\* Variable Entries as processRawConfigs returns them: a description that
\* is set has at least one line.
GenVariables ==
    {EnvVariable(k, v, d # <<>>, d) :
        k \in GenKeys, v \in {<<"n">>, <<"q", QUOTE>>}, d \in GenDescriptions}

\* Lists of them in which no key comes twice.
GenVariableLists ==
    {vs \in SeqsUpTo(GenVariables, Cardinality(GenKeys)) : KeysDistinct(vs)}

\* Items as parseEnvFileContent returns them.
GenItems ==
    {Line(<<"x", "-", "y">>)}
    \cup {EnvVariable(<<"A">>, <<"0">>, d # <<>>, d) :
             d \in {<<>>, << <<"o">> >>, << <<"o">>, <<"p">> >>}}
    \cup {EnvVariable(<<"C">>, <<"x", NEWLINE, "y">>, d # <<>>, d) :
             d \in {<<>>, << <<"o">> >>}}

InitGen ==
    /\ pc = "generate"
    /\ rawConfigs = <<>>
    /\ envConfig \in {EnvConfig(Resolve(Cwd, DotEnv), o, vs) :
                         o \in BOOLEAN, vs \in GenVariableLists}
    /\ fileExists = TRUE
    /\ fileText = <<>>
    /\ currentEnv \in SeqsUpTo(GenItems, MaxItems)
    /\ content = <<>>
    /\ ioLog = <<"read">>
    /\ exitCode = 0
    /\ pass = 1
    /\ prevRun = NoRun

NextGen == Generate

SpecGen == InitGen /\ [][NextGen]_vars

\* The text lines an item takes when serialized.
ItemLines(item) ==
    IF item.kind = "line" THEN 1
    ELSE (IF item.hasDesc THEN Len(item.description) ELSE 0) + 1

\* The number of the text line that holds the `key=` line of items[i].
RECURSIVE KeyLinePos(_, _)
KeyLinePos(items, i) ==
    IF i = 0 THEN 0 ELSE KeyLinePos(items, i - 1) + ItemLines(items[i])

Max(a, b) == IF a >= b THEN a ELSE b

DescriptionOfItem(item) == IF item.hasDesc THEN item.description ELSE <<>>

\* C3: the items serialized are the current items in their order, opaque
\* lines unchanged and variables with their own key and current value, then
\* the config variables whose key no current variable has, in config order.
C3_CurrentStatePreserved ==
    pc = "write" =>
        LET U == UpdatedEnv(envConfig, currentEnv)
            n == Len(currentEnv)
            new == SelectSeq(envConfig.variables,
                             LAMBDA v : \A i \in VarIndices(currentEnv) :
                                           currentEnv[i].key # v.key)
        IN  /\ Len(U) = n + Len(new)
            /\ \A i \in 1..n :
                  /\ U[i].kind = currentEnv[i].kind
                  /\ currentEnv[i].kind = "line" => U[i] = currentEnv[i]
                  /\ currentEnv[i].kind = "var" =>
                        /\ U[i].key = currentEnv[i].key
                        /\ U[i].value = currentEnv[i].value
            /\ SubSeq(U, n + 1, Len(U)) = new
            /\ content = Serialize(U)
            /\ \A i \in 1..Len(U) :
                  SplitNl(content)[KeyLinePos(U, i)] =
                      IF U[i].kind = "line" THEN U[i].text
                      ELSE U[i].key \o <<"=">> \o RenderValue(U[i].value)

\* An opaque line and a variable A were kept, A with its current value
\* though the config gives A another one, and the config's B was appended.
C3_Witness ==
    /\ pc = "write"
    /\ Len(currentEnv) = 2
    /\ currentEnv[1].kind = "line"
    /\ currentEnv[2].kind = "var" /\ currentEnv[2].key = <<"A">>
    /\ Len(envConfig.variables) = 2
    /\ envConfig.variables[1].key = <<"A">>
    /\ envConfig.variables[1].value # currentEnv[2].value
    /\ envConfig.overrideDescription
    /\ envConfig.variables[1].hasDesc
    /\ SplitNl(content)[1] = <<"x", "-", "y">>
    /\ SplitNl(content)[KeyLinePos(UpdatedEnv(envConfig, currentEnv), 2)]
           = <<"A", "=", "0">>
    /\ Len(UpdatedEnv(envConfig, currentEnv)) = 3

\* C7: a value is written JSON-escaped in double quotes exactly when it
\* has a double quote or a newline, and raw otherwise; what is written has
\* no newline, so the text has one line per description line and one
\* `key=...` line per variable.
C7_QuotingRule ==
    pc = "write" =>
        LET U == UpdatedEnv(envConfig, currentEnv)
            lines == SplitNl(content)
        IN  /\ U # <<>> => Len(lines) = KeyLinePos(U, Len(U)) + 1
            /\ U = <<>> => content = <<NEWLINE>>
            /\ lines[Len(lines)] = <<>>
            /\ \A i \in VarIndices(U) :
                  LET value == U[i].value
                      written == SubSeq(lines[KeyLinePos(U, i)],
                                        Len(U[i].key) + 2,
                                        Len(lines[KeyLinePos(U, i)]))
                  IN  /\ StartsWith(lines[KeyLinePos(U, i)], U[i].key \o <<"=">>)
                      /\ ~Includes(written, NEWLINE)
                      /\ IF Includes(value, QUOTE) \/ Includes(value, NEWLINE)
                         THEN /\ written = JSONstringify(value)
                              /\ IsQuoted(written)
                              /\ JSONparse(written) = <<TRUE, value>>
                         ELSE written = value

\* A value with a newline and a value with a double quote were written
\* quoted, and a value with neither raw.
C7_Witness ==
    /\ pc = "write"
    /\ Len(currentEnv) = 2
    /\ currentEnv[1].kind = "var" /\ currentEnv[1].key = <<"C">>
    /\ currentEnv[2].kind = "var" /\ currentEnv[2].key = <<"A">>
    /\ ~currentEnv[1].hasDesc /\ ~currentEnv[2].hasDesc
    /\ Len(envConfig.variables) = 1
    /\ envConfig.variables[1] = EnvVariable(<<"B">>, <<"q", QUOTE>>, FALSE, <<>>)
    /\ SplitNl(content) =
          << <<"C", "=", QUOTE, "x", BACKSLASH, "n", "y", QUOTE>>,
             <<"A", "=", "0">>,
             <<"B", "=", QUOTE, "q", BACKSLASH, QUOTE, QUOTE>>,
             <<>> >>

\* C10: for a current variable whose key the config has, with
\* overrideDescription true and a non-empty config description, the new
\* description is the tail merge: max(current, incoming) lines that end with
\* the incoming lines, the current leading lines kept when the current one
\* is longer; any other current variable keeps its description. The
\* description is written as "# " lines right above the `key=` line.
C10_DescriptionOutcome ==
    pc = "write" =>
        LET U == UpdatedEnv(envConfig, currentEnv)
            lines == SplitNl(content)
        IN  \A i \in VarIndices(currentEnv) :
                LET item == currentEnv[i]
                    cur == DescriptionOfItem(item)
                    new == DescriptionOfItem(U[i])
                    overrides ==
                        /\ HasConfigVariable(envConfig.variables, item.key)
                        /\ envConfig.overrideDescription
                        /\ ConfigVariable(envConfig.variables, item.key).hasDesc
                        /\ ConfigVariable(envConfig.variables, item.key).description # <<>>
                    inc == ConfigVariable(envConfig.variables, item.key).description
                IN  /\ IF overrides
                       THEN /\ Len(new) = Max(Len(cur), Len(inc))
                            /\ SubSeq(new, Len(new) - Len(inc) + 1, Len(new)) = inc
                            /\ Len(cur) > Len(inc) =>
                                  SubSeq(new, 1, Len(cur) - Len(inc))
                                      = SubSeq(cur, 1, Len(cur) - Len(inc))
                            /\ Len(cur) <= Len(inc) => new = inc
                       ELSE /\ U[i].hasDesc = item.hasDesc
                            /\ U[i].description = item.description
                    /\ \A k \in 1..Len(new) :
                          lines[KeyLinePos(U, i) - Len(new) + k - 1]
                              = <<"#", " ">> \o new[k]

\* A current description of two lines met an incoming one of one line: the
\* first current line was kept and the incoming line follows it.
C10_Witness ==
    /\ pc = "write"
    /\ envConfig.overrideDescription
    /\ Len(currentEnv) = 1
    /\ currentEnv[1] = EnvVariable(<<"A">>, <<"0">>, TRUE, << <<"o">>, <<"p">> >>)
    /\ Len(envConfig.variables) = 1
    /\ envConfig.variables[1].key = <<"A">>
    /\ envConfig.variables[1].description = << <<"N">> >>
    /\ SplitNl(content) = << <<"#", " ", "o">>, <<"#", " ", "N">>,
                             <<"A", "=", "0">>, <<>> >>

----------------------------------------------------------------------------
(* parseEnvFileContent on lines without "=": a target file of such lines,  *)
(* comments and valid lines is drawn and read by ReadTarget.               *)

NoEqualsLines ==
    { <<"F", "O", "O">>,
      <<"a", "-", "b">>,
      <<"#", "x">>,
      <<"#", " ", "c">>,
      <<"A", "=", "1">>,
      <<>> }

InitLines ==
    /\ pc = "read"
    /\ rawConfigs = <<[target |-> StrV(DotEnv), variables |-> EmptyVars]>>
    /\ envConfig = NoVariablesConfig
    /\ fileExists = TRUE
    /\ fileText \in {Join(lines, <<NEWLINE>>) : lines \in SeqsUpTo(NoEqualsLines, MaxLines)}
    /\ currentEnv = <<>>
    /\ content = <<>>
    /\ ioLog = <<>>
    /\ exitCode = 0
    /\ pass = 1
    /\ prevRun = NoRun

NextLines == ReadTarget \/ Generate

SpecLines == InitLines /\ [][NextLines]_vars

\* A line that is not blank, not a comment, and has no "=".
NoEqualsLine(line) ==
    Trim(line) # <<>> /\ ~IsCommentLine(line) /\ ~Includes(line, "=")

\* The split of a line as C11 states it: without "=", the key is the whole
\* line and the value is empty.
KeyAsClaimed(line) == IF Includes(line, "=") THEN LineKey(line) ELSE line

ValueAsClaimed(line) == IF Includes(line, "=") THEN LineValue(line) ELSE <<>>

\* What line j of nb and the comment block before it give under that split.
ItemsOfLineAsClaimed(nb, j) ==
    IF IsCommentLine(nb[j]) THEN <<>>
    ELSE IF isValidKey(KeyAsClaimed(nb[j]))
    THEN <<EnvVariable(KeyAsClaimed(nb[j]), Unquote(ValueAsClaimed(nb[j])),
                       Len(CommentBlock(nb, j)) >= 1, CommentBlock(nb, j))>>
    ELSE [k \in 1..Len(CommentBlock(nb, j)) |->
             Line(<<"#", " ">> \o CommentBlock(nb, j)[k])] \o <<Line(nb[j])>>

RECURSIVE ItemsUpToAsClaimed(_, _)
ItemsUpToAsClaimed(nb, j) ==
    IF j = 0 THEN <<>>
    ELSE ItemsUpToAsClaimed(nb, j - 1) \o ItemsOfLineAsClaimed(nb, j)

\* C11 as stated: a non-blank, non-comment line without "=" is split into
\* key = the whole line and value = "", so a bare identifier is emitted as a
\* Variable Entry with that key and an empty value, and any other such line
\* as an opaque item verbatim.
C11_LinesWithoutEquals ==
    pc \in {"generate", "write"} =>
        LET nb == NonBlankLines(fileText)
        IN  currentEnv =
                ItemsUpToAsClaimed(nb, Len(nb))
                    \o [k \in 1..Len(CommentBlock(nb, Len(nb) + 1)) |->
                           Line(<<"#", " ">> \o CommentBlock(nb, Len(nb) + 1)[k])]

\* C11 as amended: a non-blank, non-comment line without "=" is split into
\* key = "" and value = the whole line, so it never passes the identifier
\* check, a bare identifier included: the opaque items without "=" that are
\* no comment are exactly those lines, verbatim and in order, and the
\* Variable Entries are as many as the valid `KEY=value` lines.
C11_NoEqualsLineIsOpaque ==
    pc \in {"generate", "write"} =>
        LET lines == SplitLines(fileText)
            noEquals == SelectSeq(lines, NoEqualsLine)
        IN  /\ \A i \in 1..Len(noEquals) :
                  /\ LineKey(noEquals[i]) = <<>>
                  /\ LineValue(noEquals[i]) = noEquals[i]
                  /\ ~isValidKey(LineKey(noEquals[i]))
            /\ SelectSeq(currentEnv,
                         LAMBDA e : e.kind = "line" /\ NoEqualsLine(e.text))
                 = [i \in 1..Len(noEquals) |-> Line(noEquals[i])]
            /\ Len(SelectSeq(currentEnv, LAMBDA e : e.kind = "var"))
                 = Len(SelectSeq(lines, LAMBDA l : IndexOf(l, "=")[1]
                                                   /\ isValidKey(LineKey(l))
                                                   /\ ~IsCommentLine(l)))

\* A comment and then the bare identifier FOO were read: two opaque items.
C11_Witness ==
    /\ pc = "generate"
    /\ SplitLines(fileText) = << <<"#", " ", "c">>, <<"F", "O", "O">> >>
    /\ currentEnv = <<Line(<<"#", " ", "c">>), Line(<<"F", "O", "O">>)>>

----------------------------------------------------------------------------
(* Exceptions of the core, on the run of the CLI.                          *)

\* C12: the core never raises on input content: processRawConfigs gives an
\* EnvConfig or absent, never an exception, for every list of raw configs
\* that pass isValidRawConfig (mapping values that are bare scalars or null
\* included), and parseEnvFileContent gives a list of items for every text,
\* with a quoted value that fails to unescape kept as the raw quoted text.
C12_NeverRaises ==
    /\ (\A i \in 1..Len(rawConfigs) : isValidRawConfig(rawConfigs[i]))
          => envConfig.kind \in {"config", "undefined"}
    /\ (pc \in {"generate", "write"} /\ fileExists) =>
          LET nb == NonBlankLines(fileText)
          IN  /\ \A j \in 1..Len(currentEnv) : currentEnv[j].kind \in {"line", "var"}
              /\ \A i \in 1..Len(nb) :
                    (/\ ValidKeyValueLine(nb[i])
                     /\ IsQuoted(LineValue(nb[i]))
                     /\ ~JSONparse(LineValue(nb[i]))[1])
                    => \E j \in 1..Len(currentEnv) :
                          /\ currentEnv[j].kind = "var"
                          /\ currentEnv[j].key = LineKey(nb[i])
                          /\ currentEnv[j].value = LineValue(nb[i])

====
